---- MODULE Spec2Model ----
(***************************************************************************)
(* Fetchall (chapter-one/1.6/code/fetchall/main.go): main starts one       *)
(* goroutine fetch(url, ch) per command-line argument, receives one string *)
(* per argument from the unbuffered channel ch, prints each, and prints    *)
(* the total elapsed time.                                                 *)
(*                                                                         *)
(* Two more programs of the repository are modelled next to it, each with  *)
(* its own specification: the demo HTTP server (unnamed/part_001), whose   *)
(* /count handler reads a counter under a mutex, and Dup v1                *)
(* (unnamed/part_000), which counts the lines of its standard input.       *)
(* The sequential Fetch (unnamed/part_002) is modelled as a fourth.        *)
(***************************************************************************)
EXTENDS Integers, Sequences, FiniteSets, TLC

\* ---------------------------------------------------------------- bounds
MaxTargets == 2
MaxRequests == 3
MaxLines == 3
MaxUrls == 3
MaxClock == 1

\* The number of clock ticks in a hundredth of a second: more than one, so
\* that the two decimals of %.2f round the measured durations.
TicksPerCenti == 2

\* The inputs: the sizes of the bodies, the errors of http.Get and the
\* errors of reading a body.
Bytes == {0, 100}
GetErrs == {"refused"}
ReadErrs == {"EOF"}

Nil == "nil"
NoTime == -1

\* The exit status of a Go program: 0 when main returns, 2 when a goroutine
\* panics; NoExit while the process runs.
ExitSuccess == 0
ExitPanic == 2
NoExit == -1

\* A target that is no URL http.Get can request, and the error http.Get
\* returns for it.
BadTarget == "%"
Malformed(u) == u = BadTarget
BadTargetErr == "invalid URL"

\* ------------------------------------------------- fmt: strings as tokens
\* A Go string is modelled as the sequence of its pieces.  k says what the
\* piece is: "lit" literal text, "verb" an uninterpreted format verb, "url"
\* the text of a target, "err" the text of an error, "secs" a number of
\* seconds printed with two decimals (n in hundredths), "int" a decimal
\* integer n preceded by w blanks.
Tok(k, s, n, w) == [k |-> k, s |-> s, n |-> n, w |-> w]
Lit(s) == Tok("lit", s, 0, 0)
Verb(s) == Tok("verb", s, 0, 0)

\* Operands of the fmt functions.
StrV(toks) == [ty |-> "string", toks |-> toks, s |-> "", n |-> 0]
ErrV(e) == [ty |-> "error", toks |-> <<>>, s |-> e, n |-> 0]
IntV(n) == [ty |-> "int", toks |-> <<>>, s |-> "", n |-> n]
FloatV(n) == [ty |-> "float", toks |-> <<>>, s |-> "", n |-> n]
UrlV(u) == StrV(<<Tok("url", u, 0, 0)>>)

\* Number of decimal digits of n >= 0.
RECURSIVE Digits(_)
Digits(n) == IF n < 10 THEN 1 ELSE 1 + Digits(n \div 10)

\* %.2f of a duration of d ticks, in seconds: rounds to the nearest hundredth.
Centis(d) ==
    IF d >= 0 THEN (2 * d + TicksPerCenti) \div (2 * TicksPerCenti)
    ELSE 0 - ((2 * (0 - d) + TicksPerCenti) \div (2 * TicksPerCenti))

\* %7d: right-justified in 7 columns.
Pad7(n) == IF Digits(n) >= 7 THEN 0 ELSE 7 - Digits(n)

\* The default format (%v) of one operand.
DefaultFormat(op) ==
    CASE op.ty = "string" -> op.toks
      [] op.ty = "error" -> <<Tok("err", op.s, 0, 0)>>
      [] op.ty = "int" -> <<Tok("int", "", op.n, 0)>>
      [] op.ty = "float" -> <<Tok("float", "", op.n, 0)>>

\* One operand under one verb.
FormatVerb(verb, op) ==
    CASE verb = "%.2f" /\ op.ty = "float" -> <<Tok("secs", "", Centis(op.n), 0)>>
      [] verb = "%7d" /\ op.ty = "int" -> <<Tok("int", "", op.n, Pad7(op.n))>>
      [] verb = "%s" /\ op.ty = "string" -> op.toks
      [] verb = "%s" /\ op.ty = "error" -> <<Tok("err", op.s, 0, 0)>>
      [] verb = "%v" -> DefaultFormat(op)
      [] OTHER -> <<Tok("bad", verb, 0, 0)>>

\* fmt.Sprint: the operands in their default formats; a blank is added
\* between two operands when neither is a string.  No verb is interpreted.
RECURSIVE Sprint(_)
Sprint(ops) ==
    IF Len(ops) = 0 THEN <<>>
    ELSE IF Len(ops) = 1 THEN DefaultFormat(ops[1])
    ELSE LET n == Len(ops)
             init == SubSeq(ops, 1, n - 1)
             sep == IF ops[n - 1].ty # "string" /\ ops[n].ty # "string"
                    THEN <<Lit(" ")>> ELSE <<>>
         IN Sprint(init) \o sep \o DefaultFormat(ops[n])

\* fmt.Sprintf: the pieces of the format, each verb replaced by the next
\* operand formatted under it; operands left over are reported as EXTRA.
RECURSIVE Sprintf(_, _)
Sprintf(format, ops) ==
    IF Len(format) = 0
    THEN IF Len(ops) = 0 THEN <<>> ELSE <<Tok("bad", "%!(EXTRA)", 0, 0)>>
    ELSE IF format[1].k = "verb"
         THEN IF Len(ops) = 0
              THEN <<Tok("bad", "%!(MISSING)", 0, 0)>> \o Sprintf(Tail(format), ops)
              ELSE FormatVerb(format[1].s, ops[1]) \o Sprintf(Tail(format), Tail(ops))
         ELSE <<format[1]>> \o Sprintf(Tail(format), ops)

\* The three string constants of main.go.
ReadErrText == <<Lit("while reading "), Verb("%s"), Lit(": "), Verb("%v")>>
OkFormat == <<Verb("%.2f"), Lit("s "), Verb("%7d"), Lit(" "), Verb("%s")>>
ElapsedFormat == <<Verb("%.2f"), Lit("s elapsed"), Lit("\n")>>

\* fmt.Println of one string.
Println(s) == s \o <<Lit("\n")>>

\* ---------------------------------------------------------------- state
VARIABLES
    args,       \* os.Args[1:]
    clock,      \* the latest reading of the monotonic clock
    mainPc,     \* where main is
    mainStart,  \* main's start
    next,       \* index of the first loop of main
    collected,  \* number of iterations of the second loop of main done
    recvd,      \* the value of <-ch about to be printed
    output,     \* what was written to standard output, write by write
    total,      \* time.Since(start) of main, in ticks
    exitStatus, \* the exit status of the process, once it has ended
    panicked,   \* a goroutine dereferenced a nil *http.Response
    pc,         \* pc[t]: where the goroutine of the t-th argument is
    url,        \* fetch's parameter url
    start,      \* fetch's start
    resp,       \* fetch's resp
    err,        \* fetch's err
    nbytes,     \* fetch's nbytes
    secs,       \* fetch's time.Since(start), in ticks
    msg,        \* the string fetch is sending on ch
    sends,      \* history: the completed sends on ch, in order: the sender,
                \* the string, and the sender's secs at that moment
    transport,  \* history: what http.Get and the body gave each goroutine
    getCalls,   \* history: the number of calls of http.Get by each goroutine
    closeCalls  \* history: the number of calls of resp.Body.Close() by each

mainVars == <<mainPc, mainStart, next, collected, recvd, output, total,
              exitStatus>>
taskVars == <<pc, url, start, resp, err, nbytes, secs, msg>>
histVars == <<sends, transport, getCalls, closeCalls>>
fetchVars == <<args, clock, panicked, mainVars, taskVars, histVars>>

\* The demo server.
VARIABLES
    served,     \* number of requests the server has accepted
    hpc,        \* hpc[r]: where the goroutine serving request r is
    path,       \* r.URL.Path of request r
    mu,         \* var mu sync.Mutex: TRUE when locked
    holder,     \* history: the request whose goroutine locked mu, or 0
    count,      \* var count int
    loaded,     \* the value of count read for request r, or -1
    body        \* what was written to the ResponseWriter of request r

serverVars == <<served, hpc, path, mu, holder, count, loaded, body>>

\* Dup v1.
VARIABLES
    stdin,      \* the lines of the standard input
    scanned,    \* number of lines input.Scan() has consumed
    counts,     \* counts := make(map[string]int)
    dupPc,      \* where Dup's main is
    keys,       \* the keys of counts the range loop has yet to visit
    stdout      \* the lines Dup has printed

dupVars == <<stdin, scanned, counts, dupPc, keys, stdout>>

\* The sequential Fetch.
VARIABLES
    urls,       \* os.Args[1:]
    seqPc,      \* where main is
    seqIdx,     \* the index in urls of the url of the current iteration
    seqResp,    \* resp
    seqErr,     \* err
    seqB,       \* b
    seqOut,     \* what was written to standard output, write by write
    seqErrOut,  \* what was written to standard error, write by write
    seqStatus,  \* the exit status of the process, once it has ended
    seqGets,    \* history: the indices for which http.Get was called, in order
    seqCloses   \* history: the indices whose resp.Body was closed, in order

seqVars == <<urls, seqPc, seqIdx, seqResp, seqErr, seqB, seqOut, seqErrOut,
             seqStatus, seqGets, seqCloses>>

\* Each program leaves the variables of the others alone.
otherVars == <<serverVars, dupVars, seqVars>>
vars == <<fetchVars, serverVars, dupVars, seqVars>>

Tasks == 1..Len(args)

\* What the transport has given a goroutine so far: nothing yet, the error
\* e of http.Get, a response whose body is not read yet, a body of n bytes,
\* or the error e of reading the body after n bytes.
Reply(kind, n, e) == [kind |-> kind, n |-> n, e |-> e]
NoReply == Reply("none", 0, Nil)

\* The argument lists tried: one of every length up to MaxTargets, its
\* targets alternating (fetchall never compares two targets).
ArgLists ==
    {[i \in 1..k |-> IF i % 2 = 1 THEN "A" ELSE "B"] : k \in 0..MaxTargets}

\* Argument lists with a malformed target: at the odd places.
BadArgLists ==
    {[i \in 1..k |-> IF i % 2 = 1 THEN BadTarget ELSE "A"] : k \in 1..MaxTargets}

\* time.Now() returns now: the monotonic clock never goes back.  Time passes
\* unobserved between two readings, so the clock moves when it is read.
Now(now) == now \in clock..MaxClock

\* Mutant of Since: the operands of the subtraction exchanged.
SinceSwapped(now, s) == s - now

\* time.Since(s), the clock reading now
Since(now, s) == now - s

\* The program runs until main returns or a goroutine panics.
Running == ~panicked /\ mainPc # "done"

InitArgs(lists) ==
    /\ args \in lists
    /\ clock = 0
    /\ mainPc = "init"
    /\ mainStart = NoTime
    /\ next = 1
    /\ collected = 0
    /\ recvd = <<>>
    /\ output = <<>>
    /\ total = NoTime
    /\ exitStatus = NoExit
    /\ panicked = FALSE
    /\ pc = [t \in 1..Len(args) |-> "none"]
    /\ url = [t \in 1..Len(args) |-> Nil]
    /\ start = [t \in 1..Len(args) |-> NoTime]
    /\ resp = [t \in 1..Len(args) |-> Nil]
    /\ err = [t \in 1..Len(args) |-> Nil]
    /\ nbytes = [t \in 1..Len(args) |-> 0]
    /\ secs = [t \in 1..Len(args) |-> NoTime]
    /\ msg = [t \in 1..Len(args) |-> <<>>]
    /\ sends = <<>>
    /\ transport = [t \in 1..Len(args) |-> NoReply]
    /\ getCalls = [t \in 1..Len(args) |-> 0]
    /\ closeCalls = [t \in 1..Len(args) |-> 0]

\* The server before its first request: mu unlocked, count 0.
Requests == 1..MaxRequests
InitServer ==
    /\ served = 0
    /\ hpc = [r \in Requests |-> "idle"]
    /\ path = [r \in Requests |-> Nil]
    /\ mu = FALSE
    /\ holder = 0
    /\ count = 0
    /\ loaded = [r \in Requests |-> -1]
    /\ body = [r \in Requests |-> <<>>]

\* The sequential Fetch at the start of main, its arguments one of lists.
InitSeq(lists) ==
    /\ urls \in lists
    /\ seqPc = "loop"
    /\ seqIdx = 1
    /\ seqResp = Nil
    /\ seqErr = Nil
    /\ seqB = <<>>
    /\ seqOut = <<>>
    /\ seqErrOut = <<>>
    /\ seqStatus = NoExit
    /\ seqGets = <<>>
    /\ seqCloses = <<>>

\* Dup v1 at the start of main, its standard input one of inputs.
InitDup(inputs) ==
    /\ stdin \in inputs
    /\ scanned = 0
    /\ counts = <<>>
    /\ dupPc = "scan"
    /\ keys = {}
    /\ stdout = <<>>

Init == InitArgs(ArgLists) /\ InitServer /\ InitSeq({<<>>}) /\ InitDup({<<>>})

\* The runs whose arguments hold a malformed target.
InitBad == InitArgs(BadArgLists) /\ InitServer /\ InitSeq({<<>>}) /\ InitDup({<<>>})

\* ----------------------------------------------------------------- main
\* for _, url := range os.Args[1:]: the body runs for k <= len, then the
\* second loop is entered.
\* Mutant of RecvLoop: the second loop stops one iteration early.
RecvLoopShort(c) == IF c < Len(args) - 1 THEN "recv" ELSE "summary"

\* Mutant of RecvLoop: the second loop runs once more than there are arguments.
RecvLoopExtra(c) == IF c <= Len(args) THEN "recv" ELSE "summary"

RecvLoop(c) == IF c < Len(args) THEN "recv" ELSE "summary"

\* Mutant of SpawnLoop: the second loop is left out.
SpawnLoopNoCollect(k) == IF k <= Len(args) THEN "spawn" ELSE "summary"

SpawnLoop(k) == IF k <= Len(args) THEN "spawn" ELSE RecvLoop(0)

\* start := time.Now(); ch := make(chan string)
MainStart ==
    /\ Running
    /\ mainPc = "init"
    /\ \E now \in 0..MaxClock :
         /\ Now(now)
         /\ clock' = now
         /\ mainStart' = now
    /\ mainPc' = SpawnLoop(next)
    /\ UNCHANGED <<otherVars, args, panicked, next, collected, recvd, output,
                   total, exitStatus, taskVars, histVars>>

\* Mutant of GoArg: every goroutine reads the loop variable after the loop
\* has ended, and finds the last argument in it.
GoArgLast(k) == args[Len(args)]

\* The url passed to the k-th goroutine: the value of the loop variable at
\* the go statement, evaluated by main.
GoArg(k) == args[k]

\* Mutant of MainGo: a goroutine is started only when the ones before it
\* have returned.
MainGoSerial ==
    /\ Running
    /\ mainPc = "spawn"
    /\ \A u \in 1..(next - 1) : pc[u] = "done"
    /\ pc' = [pc EXCEPT ![next] = "start"]
    /\ url' = [url EXCEPT ![next] = GoArg(next)]
    /\ next' = next + 1
    /\ mainPc' = SpawnLoop(next + 1)
    /\ UNCHANGED <<otherVars, args, clock, panicked, mainStart, collected, recvd,
                   output, total, exitStatus, start, resp, err, nbytes, secs,
                   msg, histVars>>

\* go fetch(url, ch)
MainGo ==
    /\ Running
    /\ mainPc = "spawn"
    /\ pc' = [pc EXCEPT ![next] = "start"]
    /\ url' = [url EXCEPT ![next] = GoArg(next)]
    /\ next' = next + 1
    /\ mainPc' = SpawnLoop(next + 1)
    /\ UNCHANGED <<otherVars, args, clock, panicked, mainStart, collected, recvd,
                   output, total, exitStatus, start, resp, err, nbytes, secs,
                   msg, histVars>>

\* Mutants of AfterSend: the return after the send of line 38, or of line
\* 47, is missing and fetch falls through to the next statement.
AfterSendNoReturn38(p) == IF p = "send38" THEN "copy" ELSE "done"
AfterSendNoReturn47(p) == IF p = "send47" THEN "since" ELSE "done"

\* Where fetch goes on after each of its three sends: it returns.
AfterSend(p) == "done"

SendPcs == {"send38", "send47", "send52"}

\* ch <- s in fetch meeting <-ch in main: ch is unbuffered, so the send
\* completes when main receives.  When fetch returns, its locals are gone.
ChanSendRecv(t) ==
    /\ Running
    /\ mainPc = "recv"
    /\ pc[t] \in SendPcs
    /\ recvd' = msg[t]
    /\ mainPc' = "print"
    /\ pc' = [pc EXCEPT ![t] = AfterSend(pc[t])]
    /\ sends' = Append(sends, [by |-> t, s |-> msg[t], secs |-> secs[t]])
    /\ IF AfterSend(pc[t]) = "done"
       THEN /\ url' = [url EXCEPT ![t] = Nil]
            /\ start' = [start EXCEPT ![t] = NoTime]
            /\ resp' = [resp EXCEPT ![t] = Nil]
            /\ err' = [err EXCEPT ![t] = Nil]
            /\ nbytes' = [nbytes EXCEPT ![t] = 0]
            /\ secs' = [secs EXCEPT ![t] = NoTime]
            /\ msg' = [msg EXCEPT ![t] = <<>>]
       ELSE UNCHANGED <<url, start, resp, err, nbytes, secs, msg>>
    /\ UNCHANGED <<otherVars, args, clock, panicked, mainStart, next, collected,
                   output, total, exitStatus, transport, getCalls, closeCalls>>

\* Mutant of MainPrint: the line is put before the lines already printed.
MainPrintFirst ==
    /\ Running
    /\ mainPc = "print"
    /\ output' = <<Println(recvd)>> \o output
    /\ collected' = collected + 1
    /\ mainPc' = RecvLoop(collected + 1)
    /\ UNCHANGED <<otherVars, args, clock, panicked, mainStart, next, recvd, total,
                   exitStatus, taskVars, histVars>>

\* fmt.Println(<-ch), and the loop goes round.
MainPrint ==
    /\ Running
    /\ mainPc = "print"
    /\ output' = Append(output, Println(recvd))
    /\ collected' = collected + 1
    /\ mainPc' = RecvLoop(collected + 1)
    /\ UNCHANGED <<otherVars, args, clock, panicked, mainStart, next, recvd, total,
                   exitStatus, taskVars, histVars>>

\* The line of fmt.Printf("%.2fs elapsed\n", d.Seconds())
ElapsedLine(d) == Sprintf(ElapsedFormat, <<FloatV(d)>>)

\* Mutant of MainExit: a run with a failure line ends with status 1.
MainExitOnFailure(out) ==
    IF \E i \in 1..Len(out) : \E j \in 1..Len(out[i]) : out[i][j].k = "err"
    THEN 1
    ELSE ExitSuccess

\* The exit status with which main ends after printing the lines out: main
\* returns at its closing brace, whatever it has printed.
MainExit(out) == ExitSuccess

\* fmt.Printf("%.2fs elapsed\n", time.Since(start).Seconds()); main returns.
MainSummary ==
    /\ Running
    /\ mainPc = "summary"
    /\ \E now \in 0..MaxClock :
         /\ Now(now)
         /\ clock' = now
         /\ total' = Since(now, mainStart)
         /\ output' = Append(output, ElapsedLine(Since(now, mainStart)))
    /\ mainPc' = "done"
    /\ exitStatus' = MainExit(output)
    /\ UNCHANGED <<otherVars, args, panicked, mainStart, next, collected,
                   recvd, taskVars, histVars>>

\* ---------------------------------------------------------------- fetch
\* Mutant of FetchStart: start is one variable shared by the goroutines.
FetchStartShared(t) ==
    /\ Running
    /\ pc[t] = "start"
    /\ \E now \in 0..MaxClock :
         /\ Now(now)
         /\ clock' = now
         /\ start' = [u \in Tasks |-> now]
    /\ pc' = [pc EXCEPT ![t] = "get"]
    /\ UNCHANGED <<otherVars, args, panicked, mainVars, url, resp, err,
                   nbytes, secs, msg, histVars>>

\* start := time.Now()
FetchStart(t) ==
    /\ Running
    /\ pc[t] = "start"
    /\ \E now \in 0..MaxClock :
         /\ Now(now)
         /\ clock' = now
         /\ start' = [start EXCEPT ![t] = now]
    /\ pc' = [pc EXCEPT ![t] = "get"]
    /\ UNCHANGED <<otherVars, args, panicked, mainVars, url, resp, err,
                   nbytes, secs, msg, histVars>>

\* http.Get(url) is called: the transport call is in flight.
HttpGetCall(t) ==
    /\ Running
    /\ pc[t] = "get"
    /\ pc' = [pc EXCEPT ![t] = "inflight"]
    /\ getCalls' = [getCalls EXCEPT ![t] = @ + 1]
    /\ UNCHANGED <<otherVars, args, clock, panicked, mainVars, url, start, resp,
                   err, nbytes, secs, msg, sends, transport, closeCalls>>

\* Mutant of GetErrLine: a fixed text is sent instead of the error.
GetErrLineFixed(e) == Sprint(<<StrV(<<Lit("fetch failed")>>)>>)

\* The string sent when http.Get fails: fmt.Sprint(err)
GetErrLine(e) == Sprint(<<ErrV(e)>>)

\* Mutant of GetResults: a malformed target is requested like any other.
GetResultsAny(u) == GetErrs \cup {Nil}

\* What http.Get can return as err for a target: for a malformed one, the
\* error saying so.
GetResults(u) == IF Malformed(u) THEN {BadTargetErr} ELSE GetErrs \cup {Nil}

\* Where fetch goes on when http.Get returned an error: to the send of the
\* error (and then it returns); it does not call http.Get again.
OnGetErrRetry(e) == "get"
OnGetErr(e) == "send38"

\* http.Get(url) never returns: no timeout is set on the default client.
HttpGetHang(t) ==
    /\ Running
    /\ pc[t] = "inflight"
    /\ ~Malformed(url[t])
    /\ pc' = [pc EXCEPT ![t] = "hung"]
    /\ transport' = [transport EXCEPT ![t] = Reply("hang", 0, Nil)]
    /\ UNCHANGED <<otherVars, args, clock, panicked, mainVars, url, start, resp, err,
                   nbytes, secs, msg, sends, getCalls, closeCalls>>

\* resp, err := http.Get(url) returns, with a response or with an error; if
\* err != nil the error is sent.
HttpGetReturn(t) ==
    /\ Running
    /\ pc[t] = "inflight"
    /\ \E e \in GetResults(url[t]) :
         /\ err' = [err EXCEPT ![t] = e]
         /\ IF e # Nil
            THEN /\ resp' = [resp EXCEPT ![t] = Nil]
                 /\ msg' = [msg EXCEPT ![t] = GetErrLine(e)]
                 /\ pc' = [pc EXCEPT ![t] = OnGetErr(e)]
                 /\ transport' = [transport EXCEPT ![t] = Reply("geterr", 0, e)]
            ELSE /\ resp' = [resp EXCEPT ![t] = "response"]
                 /\ msg' = msg
                 /\ pc' = [pc EXCEPT ![t] = "copy"]
                 /\ transport' = [transport EXCEPT ![t] = Reply("response", 0, Nil)]
    /\ UNCHANGED <<otherVars, args, clock, panicked, mainVars, url, start, nbytes,
                   secs, sends, getCalls, closeCalls>>

\* nbytes, err := io.Copy(ioutil.Discard, resp.Body) returns the number of
\* bytes copied and the error met, if any (the errors tried are met before
\* any byte is copied); a nil resp panics.
IoCopy(t) ==
    /\ Running
    /\ pc[t] = "copy"
    /\ IF resp[t] = Nil
       THEN /\ panicked' = TRUE
            /\ exitStatus' = ExitPanic
            /\ UNCHANGED <<pc, nbytes, err, transport>>
       ELSE /\ \E n \in Bytes, e \in ReadErrs \cup {Nil} :
                 /\ e # Nil => n = 0
                 /\ nbytes' = [nbytes EXCEPT ![t] = n]
                 /\ err' = [err EXCEPT ![t] = e]
                 /\ transport' = [transport EXCEPT ![t] =
                        Reply(IF e = Nil THEN "ok" ELSE "readerr", n, e)]
            /\ pc' = [pc EXCEPT ![t] = "close"]
            /\ UNCHANGED <<panicked, exitStatus>>
    /\ UNCHANGED <<otherVars, args, clock, mainPc, mainStart, next, collected, recvd,
                   output, total, url, start, resp, secs, msg, sends, getCalls, closeCalls>>

\* Mutant of ReadErrLine: the url is left out of the operands.
ReadErrLineNoUrl(u, e) == Sprint(<<StrV(ReadErrText), ErrV(e)>>)

\* The string sent when the body cannot be read:
\* fmt.Sprint("while reading %s: %v", url, err)
ReadErrLine(u, e) == Sprint(<<StrV(ReadErrText), UrlV(u), ErrV(e)>>)

\* resp.Body.Close(); if err != nil the error is sent.
BodyClose(t) ==
    /\ Running
    /\ pc[t] = "close"
    /\ IF err[t] # Nil
       THEN /\ msg' = [msg EXCEPT ![t] = ReadErrLine(url[t], err[t])]
            /\ pc' = [pc EXCEPT ![t] = "send47"]
       ELSE /\ msg' = msg
            /\ pc' = [pc EXCEPT ![t] = "since"]
    /\ closeCalls' = [closeCalls EXCEPT ![t] = @ + 1]
    /\ UNCHANGED <<otherVars, args, clock, panicked, mainVars, url, start, resp,
                   err, nbytes, secs, sends, transport, getCalls>>

\* Mutant of OkLine: secs and nbytes exchanged in the operands.
OkLineSwapped(s, n, u) == Sprintf(OkFormat, <<FloatV(n), IntV(s), UrlV(u)>>)

\* The string sent on success: fmt.Sprintf("%.2fs %7d %s", secs, nbytes, url)
OkLine(s, n, u) == Sprintf(OkFormat, <<FloatV(s), IntV(n), UrlV(u)>>)

\* secs := time.Since(start).Seconds(), and the line to send is formatted.
TimeSince(t) ==
    /\ Running
    /\ pc[t] = "since"
    /\ \E now \in 0..MaxClock :
         /\ Now(now)
         /\ clock' = now
         /\ secs' = [secs EXCEPT ![t] = Since(now, start[t])]
         /\ msg' = [msg EXCEPT ![t] = OkLine(Since(now, start[t]), nbytes[t], url[t])]
    /\ pc' = [pc EXCEPT ![t] = "send52"]
    /\ UNCHANGED <<otherVars, args, panicked, mainVars, url, start, resp,
                   err, nbytes, histVars>>

Next ==
    \/ MainStart
    \/ MainGo
    \/ MainPrint
    \/ MainSummary
    \/ \E t \in Tasks : FetchStart(t)
    \/ \E t \in Tasks : HttpGetCall(t)
    \/ \E t \in Tasks : HttpGetHang(t)
    \/ \E t \in Tasks : HttpGetReturn(t)
    \/ \E t \in Tasks : IoCopy(t)
    \/ \E t \in Tasks : BodyClose(t)
    \/ \E t \in Tasks : TimeSince(t)
    \/ \E t \in Tasks : ChanSendRecv(t)

Spec == Init /\ [][Next]_vars

\* The steps the Go scheduler takes sooner or later when they stay possible:
\* every step of a runnable goroutine, and the return of a transport call
\* that has not hung.
Progress ==
    \/ MainStart
    \/ MainGo
    \/ MainPrint
    \/ MainSummary
    \/ \E t \in Tasks : FetchStart(t)
    \/ \E t \in Tasks : HttpGetCall(t)
    \/ \E t \in Tasks : HttpGetReturn(t)
    \/ \E t \in Tasks : IoCopy(t)
    \/ \E t \in Tasks : BodyClose(t)
    \/ \E t \in Tasks : TimeSince(t)
    \/ \E t \in Tasks : ChanSendRecv(t)

\* fetchall under a fair scheduler.
SpecFair == Init /\ [][Next]_vars /\ WF_vars(Progress)

\* The same program run on arguments that hold a malformed target.
SpecBad == InitBad /\ [][Next]_vars

\* ------------------------------------------------------- demo server
\* The paths requested.
Paths == {"/", "/count"}

\* http.HandleFunc("/", handler); http.HandleFunc("/count", counter): the
\* pattern "/count" matches that path only, "/" every other path.
Route(p) == IF p = "/count" THEN "counter" ELSE "handler"

\* The errors a write to the ResponseWriter can return.
WriteErrs == {"broken pipe"}

\* The server accepts a request and starts a goroutine that calls the
\* handler of its path.
Serve ==
    /\ served < MaxRequests
    /\ \E p \in Paths :
         /\ path' = [path EXCEPT ![served + 1] = p]
         /\ hpc' = [hpc EXCEPT ![served + 1] =
                       IF Route(p) = "counter" THEN "lock" ELSE "echo"]
    /\ served' = served + 1
    /\ UNCHANGED <<fetchVars, dupVars, seqVars, mu, holder, count, loaded, body>>

\* Mutant of HandlerEcho: handler counts the request, as a request counter
\* would.
HandlerEchoCounting(r) ==
    /\ hpc[r] = "echo"
    /\ body' = [body EXCEPT ![r] = Append(@, <<"echo", path[r]>>)]
    /\ hpc' = [hpc EXCEPT ![r] = "parse"]
    /\ count' = count + 1
    /\ UNCHANGED <<fetchVars, dupVars, seqVars, served, path, mu, holder, loaded>>

\* handler: the request line, the headers, Host and RemoteAddr are written.
HandlerEcho(r) ==
    /\ hpc[r] = "echo"
    /\ body' = [body EXCEPT ![r] = Append(@, <<"echo", path[r]>>)]
    /\ hpc' = [hpc EXCEPT ![r] = "parse"]
    /\ UNCHANGED <<fetchVars, dupVars, seqVars, served, path, mu, holder, count, loaded>>

\* handler: r.ParseForm(); an error is logged and the handler goes on.
HandlerParseForm(r) ==
    /\ hpc[r] = "parse"
    /\ hpc' = [hpc EXCEPT ![r] = "form"]
    /\ UNCHANGED <<fetchVars, dupVars, seqVars, served, path, mu, holder, count, loaded,
                   body>>

\* handler: the form values are written; the handler returns.
HandlerForm(r) ==
    /\ hpc[r] = "form"
    /\ body' = [body EXCEPT ![r] = Append(@, <<"form", path[r]>>)]
    /\ hpc' = [hpc EXCEPT ![r] = "done"]
    /\ UNCHANGED <<fetchVars, dupVars, seqVars, served, path, mu, holder, count, loaded>>

\* Mutant of CanLock: Lock returns at once, whether mu is locked or not.
CanLockAlways(locked) == TRUE

\* mu.Lock() returns only when mu is unlocked.
CanLock(locked) == ~locked

\* counter: mu.Lock()
CounterLock(r) ==
    /\ hpc[r] = "lock"
    /\ CanLock(mu)
    /\ mu' = TRUE
    /\ holder' = r
    /\ hpc' = [hpc EXCEPT ![r] = "read"]
    /\ UNCHANGED <<fetchVars, dupVars, seqVars, served, path, count, loaded, body>>

\* counter: the operand count of fmt.Fprintf is evaluated.
CounterRead(r) ==
    /\ hpc[r] = "read"
    /\ loaded' = [loaded EXCEPT ![r] = count]
    /\ hpc' = [hpc EXCEPT ![r] = "write"]
    /\ UNCHANGED <<fetchVars, dupVars, seqVars, served, path, mu, holder, count, body>>

\* Mutant of AfterFprintf: counter returns when the write failed.
AfterFprintfReturn(e) == IF e # Nil THEN "done" ELSE "unlock"

\* Where counter goes on after fmt.Fprintf: its result is not looked at.
AfterFprintf(e) == "unlock"

\* counter: fmt.Fprintf(w, "Count %d\n", count) writes the line, or fails.
CounterFprintf(r) ==
    /\ hpc[r] = "write"
    /\ \E e \in WriteErrs \cup {Nil} :
         /\ body' = [body EXCEPT ![r] =
                        IF e = Nil THEN Append(@, <<"Count", loaded[r]>>)
                        ELSE @]
         /\ hpc' = [hpc EXCEPT ![r] = AfterFprintf(e)]
    /\ UNCHANGED <<fetchVars, dupVars, seqVars, served, path, mu, holder, count, loaded>>

\* counter: mu.Unlock(); counter returns.
CounterUnlock(r) ==
    /\ hpc[r] = "unlock"
    /\ mu' = FALSE
    /\ holder' = 0
    /\ hpc' = [hpc EXCEPT ![r] = "done"]
    /\ UNCHANGED <<fetchVars, dupVars, seqVars, served, path, count, loaded, body>>

NextServer ==
    \/ Serve
    \/ \E r \in Requests : HandlerEcho(r)
    \/ \E r \in Requests : HandlerParseForm(r)
    \/ \E r \in Requests : HandlerForm(r)
    \/ \E r \in Requests : CounterLock(r)
    \/ \E r \in Requests : CounterRead(r)
    \/ \E r \in Requests : CounterFprintf(r)
    \/ \E r \in Requests : CounterUnlock(r)

\* The server, serving up to MaxRequests requests concurrently.
InitServing == InitArgs({<<>>}) /\ InitServer /\ InitSeq({<<>>}) /\ InitDup({<<>>})
SpecServer == InitServing /\ [][NextServer]_vars

\* The steps of the goroutine serving request r other than mu.Lock().
ServeStep(r) ==
    \/ HandlerEcho(r)
    \/ HandlerParseForm(r)
    \/ HandlerForm(r)
    \/ CounterRead(r)
    \/ CounterFprintf(r)
    \/ CounterUnlock(r)

\* The server under a fair scheduler and a fair mutex: a goroutine that can
\* run does run, and one that waits in mu.Lock() gets mu if mu is unlocked
\* again and again.  No request has to arrive.
SpecServerFair ==
    /\ InitServing
    /\ [][NextServer]_vars
    /\ \A r \in Requests : WF_vars(ServeStep(r)) /\ SF_vars(CounterLock(r))

\* ------------------------------------------------------------ Dup v1
\* bufio.MaxScanTokenSize: the size to which the buffer of a Scanner made by
\* bufio.NewScanner may grow.
MaxScanTokenSize == 65536

\* A line of the input: its text without the end-of-line marker, and the
\* number of bytes of that text.
Line(text, len) == [text |-> text, len |-> len]
Lines ==
    {Line("a", 1), Line("b", 1), Line("long", MaxScanTokenSize + 1)}
Texts == {l.text : l \in Lines}

\* The inputs tried: every sequence of at most MaxLines lines.
DupInputs == UNION {[1..k -> Lines] : k \in 0..MaxLines}

\* A line that does not fit the buffer together with its end-of-line marker:
\* input.Scan() then stops with ErrTooLong and returns false.
TooLong(l) == l.len >= MaxScanTokenSize

\* input.Scan() has another token: the input is not exhausted and its next
\* line fits the buffer.
HasToken == scanned < Len(stdin) /\ ~TooLong(stdin[scanned + 1])

\* counts[x]++ on a map: a missing key counts as 0.
Incr(m, x) ==
    [y \in DOMAIN m \cup {x} |->
        IF y = x THEN (IF x \in DOMAIN m THEN m[x] + 1 ELSE 1) ELSE m[y]]

\* for input.Scan() { counts[input.Text()]++ }: one iteration.
DupScan ==
    /\ dupPc = "scan"
    /\ HasToken
    /\ counts' = Incr(counts, stdin[scanned + 1].text)
    /\ scanned' = scanned + 1
    /\ UNCHANGED <<fetchVars, serverVars, seqVars, stdin, dupPc, keys, stdout>>

\* input.Scan() returns false, at the end of the input or at a line that is
\* too long; input.Err() is not looked at and the range loop is entered.
DupScanEnd ==
    /\ dupPc = "scan"
    /\ ~HasToken
    /\ dupPc' = "range"
    /\ keys' = DOMAIN counts
    /\ UNCHANGED <<fetchVars, serverVars, seqVars, stdin, scanned, counts, stdout>>

\* for line, n := range counts: one iteration, on any key not yet visited;
\* if n > 1 { fmt.Printf("%d\t%s\n", n, line) }
DupRange ==
    /\ dupPc = "range"
    /\ \E line \in keys :
         /\ keys' = keys \ {line}
         /\ stdout' = IF counts[line] > 1
                       THEN Append(stdout, <<counts[line], line>>)
                       ELSE stdout
    /\ UNCHANGED <<fetchVars, serverVars, seqVars, stdin, scanned, counts, dupPc>>

\* The range loop is over and main returns.
DupReturn ==
    /\ dupPc = "range"
    /\ keys = {}
    /\ dupPc' = "done"
    /\ UNCHANGED <<fetchVars, serverVars, seqVars, stdin, scanned, counts, keys,
                   stdout>>

NextDup ==
    \/ DupScan
    \/ DupScanEnd
    \/ DupRange
    \/ DupReturn

\* Dup v1 run on each of the inputs.
InitDupRun == InitArgs({<<>>}) /\ InitServer /\ InitSeq({<<>>}) /\ InitDup(DupInputs)
SpecDup == InitDupRun /\ [][NextDup]_vars

\* -------------------------------------------------- sequential Fetch
\* os.Exit(1)
ExitFailure == 1

\* The format strings of part_002.
SeqGetErrFormat == <<Lit("fetch: "), Verb("%v"), Lit("\n")>>
SeqReadErrFormat ==
    <<Lit("fetch: reading "), Verb("%s"), Lit(": "), Verb("%v"), Lit("\n")>>
SeqBodyFormat == <<Verb("%s")>>

\* The argument lists tried: one of every length up to MaxUrls, no two
\* neighbours alike.
UrlLists ==
    {[i \in 1..k |-> IF i % 2 = 1 THEN "A" ELSE "B"] : k \in 0..MaxUrls}

\* The n bytes read from the body found at u.
BodyOf(u, n) == StrV(<<Tok("body", u, n, 0)>>)

\* The range loop is over: main returns.
SeqReturn ==
    /\ seqPc = "loop"
    /\ seqIdx > Len(urls)
    /\ seqPc' = "done"
    /\ seqStatus' = ExitSuccess
    /\ UNCHANGED <<fetchVars, serverVars, dupVars, urls, seqIdx, seqResp,
                   seqErr, seqB, seqOut, seqErrOut, seqGets, seqCloses>>

\* The next iteration: http.Get(url) is called.
SeqGetCall ==
    /\ seqPc = "loop"
    /\ seqIdx <= Len(urls)
    /\ seqGets' = Append(seqGets, seqIdx)
    /\ seqPc' = "inflight"
    /\ UNCHANGED <<fetchVars, serverVars, dupVars, urls, seqIdx, seqResp,
                   seqErr, seqB, seqOut, seqErrOut, seqStatus, seqCloses>>

\* resp, err := http.Get(url) returns.
SeqGetReturn ==
    /\ seqPc = "inflight"
    /\ \E e \in GetErrs \cup {Nil} :
         /\ seqErr' = e
         /\ seqResp' = IF e = Nil THEN "response" ELSE Nil
         /\ seqPc' = IF e = Nil THEN "read" ELSE "geterr"
    /\ UNCHANGED <<fetchVars, serverVars, dupVars, urls, seqIdx, seqB, seqOut,
                   seqErrOut, seqStatus, seqGets, seqCloses>>

\* Mutant of SeqAfterErr: os.Exit(1) is missing after the message of a
\* read error, and main goes on to print b.
SeqAfterErrFallThrough(p) == IF p = "check" THEN "print" ELSE "exit"

\* Where main goes on after writing an error message: to os.Exit(1).
SeqAfterErr(p) == "exit"

\* if err != nil { fmt.Fprintf(os.Stderr, "fetch: %v\n", err) ...
SeqGetErr ==
    /\ seqPc = "geterr"
    /\ seqErrOut' = Append(seqErrOut, Sprintf(SeqGetErrFormat, <<ErrV(seqErr)>>))
    /\ seqPc' = SeqAfterErr(seqPc)
    /\ UNCHANGED <<fetchVars, serverVars, dupVars, urls, seqIdx, seqResp,
                   seqErr, seqB, seqOut, seqStatus, seqGets, seqCloses>>

\* os.Exit(1)
SeqExit ==
    /\ seqPc = "exit"
    /\ seqStatus' = ExitFailure
    /\ seqPc' = "exited"
    /\ UNCHANGED <<fetchVars, serverVars, dupVars, urls, seqIdx, seqResp,
                   seqErr, seqB, seqOut, seqErrOut, seqGets, seqCloses>>

\* Mutant of SeqAfterRead: the body is closed only when it was read in full.
SeqAfterReadNoClose(e) == IF e # Nil THEN "check" ELSE "close"

\* Where main goes on after ioutil.ReadAll: to resp.Body.Close().
SeqAfterRead(e) == "close"

\* b, err := ioutil.ReadAll(resp.Body): the bytes read, and the error met.
SeqReadAll ==
    /\ seqPc = "read"
    /\ \E n \in Bytes, e \in ReadErrs \cup {Nil} :
         /\ seqB' = BodyOf(urls[seqIdx], n)
         /\ seqErr' = e
         /\ seqPc' = SeqAfterRead(e)
    /\ UNCHANGED <<fetchVars, serverVars, dupVars, urls, seqIdx, seqResp,
                   seqOut, seqErrOut, seqStatus, seqGets, seqCloses>>

\* resp.Body.Close()
SeqClose ==
    /\ seqPc = "close"
    /\ seqCloses' = Append(seqCloses, seqIdx)
    /\ seqPc' = "check"
    /\ UNCHANGED <<fetchVars, serverVars, dupVars, urls, seqIdx, seqResp,
                   seqErr, seqB, seqOut, seqErrOut, seqStatus, seqGets>>

\* if err != nil { fmt.Fprintf(os.Stderr, "fetch: reading %s: %v\n", url, err) ...
SeqReadErr ==
    /\ seqPc = "check"
    /\ seqErr # Nil
    /\ seqErrOut' = Append(seqErrOut,
           Sprintf(SeqReadErrFormat, <<UrlV(urls[seqIdx]), ErrV(seqErr)>>))
    /\ seqPc' = SeqAfterErr(seqPc)
    /\ UNCHANGED <<fetchVars, serverVars, dupVars, urls, seqIdx, seqResp,
                   seqErr, seqB, seqOut, seqStatus, seqGets, seqCloses>>

\* Mutant of SeqNext: the range loop skips an argument.
SeqNextSkip(i) == i + 2

\* The index of the iteration after iteration i of the range loop.
SeqNext(i) == i + 1

\* fmt.Printf("%s", b); the iteration is over.
SeqPrint ==
    /\ \/ seqPc = "check" /\ seqErr = Nil
       \/ seqPc = "print"
    /\ seqOut' = Append(seqOut, Sprintf(SeqBodyFormat, <<seqB>>))
    /\ seqIdx' = SeqNext(seqIdx)
    /\ seqPc' = "loop"
    /\ UNCHANGED <<fetchVars, serverVars, dupVars, urls, seqResp, seqErr, seqB,
                   seqErrOut, seqStatus, seqGets, seqCloses>>

NextSeq ==
    \/ SeqReturn
    \/ SeqGetCall
    \/ SeqGetReturn
    \/ SeqGetErr
    \/ SeqExit
    \/ SeqReadAll
    \/ SeqClose
    \/ SeqReadErr
    \/ SeqPrint

\* The sequential Fetch run on each of the argument lists.
InitSeqRun == InitArgs({<<>>}) /\ InitServer /\ InitSeq(UrlLists) /\ InitDup({<<>>})
SpecSeq == InitSeqRun /\ [][NextSeq]_vars

\* The two programs that fetch: in each run one of them is given arguments
\* and the other none.
InitFetchers ==
    /\ \/ InitArgs(ArgLists) /\ InitSeq({<<>>})
       \/ InitArgs({<<>>}) /\ InitSeq(UrlLists)
    /\ InitServer
    /\ InitDup({<<>>})
NextFetchers == Next \/ NextSeq
SpecFetchers == InitFetchers /\ [][NextFetchers]_vars

\* ------------------------------------------------- reading the results
\* A string carries a piece.
Carries(m, tok) == \E i \in 1..Len(m) : m[i] = tok
CarriesKind(m, k) == \E i \in 1..Len(m) : m[i].k = k

\* The result strings: seconds, size and target; or one carrying an error.
IsSuccess(m) ==
    /\ Len(m) = 5
    /\ m[1].k = "secs"
    /\ m[2] = Lit("s ")
    /\ m[3].k = "int"
    /\ m[4] = Lit(" ")
    /\ m[5].k = "url"
IsFailure(m) == CarriesKind(m, "err")

\* The summary line.
IsSummary(line) ==
    /\ Len(line) = 3
    /\ line[1].k = "secs"
    /\ line[2] = Lit("s elapsed")
    /\ line[3] = Lit("\n")

\* The strings goroutine t has sent, and the number of them.
SentBy(t) == SelectSeq(sends, LAMBDA r : r.by = t)
NumSent(t) == Cardinality({i \in 1..Len(sends) : sends[i].by = t})

MainPastLoops == mainPc \in {"summary", "done"}

\* --------------------------------------------------------------- claims

\* C1 (completeness): when main reaches the summary line it has received and
\* printed exactly one result per argument: every goroutine's one send was
\* received, and the i-th line printed is the i-th string sent, so nothing
\* sent is dropped and nothing is printed twice.
C1_Completeness ==
    MainPastLoops =>
        /\ collected = Len(args)
        /\ Len(sends) = Len(args)
        /\ \A t \in Tasks : NumSent(t) = 1
        /\ Len(output) >= Len(args)
        /\ \A i \in 1..Len(args) : output[i] = Println(sends[i].s)

\* C1 witness: a run of MaxTargets arguments is at the summary line.
C1_Witness ==
    /\ mainPc = "summary"
    /\ Len(args) = MaxTargets
    /\ Len(output) = MaxTargets

\* C2 (exclusivity): a goroutine that has not returned has sent nothing, one
\* that has returned has sent exactly one string, and that string is either a
\* success or a failure, never both.
C2_Exclusivity ==
    \A t \in Tasks :
        /\ pc[t] # "done" => NumSent(t) = 0
        /\ pc[t] = "done" =>
              /\ NumSent(t) = 1
              /\ IsSuccess(SentBy(t)[1].s) # IsFailure(SentBy(t)[1].s)
              /\ transport[t].kind = "ok" <=> IsSuccess(SentBy(t)[1].s)
              /\ transport[t].kind \in {"geterr", "readerr"}
                    <=> IsFailure(SentBy(t)[1].s)

\* C2 witness: two goroutines have returned, one after a body-read error and
\* one after a success.
C2_Witness ==
    \E t, u \in Tasks :
        /\ pc[t] = "done" /\ transport[t].kind = "readerr"
        /\ pc[u] = "done" /\ transport[u].kind = "ok"

\* C3 (eager fan-out): goroutine t exists iff the first loop has passed
\* argument t, and it fetches argument t; main waits for a result only when
\* all are started; and the go statement is enabled whenever main is at it,
\* whatever the goroutines already started are doing.
C3_EagerFanOut ==
    /\ \A t \in Tasks : pc[t] # "none" <=> t < next
    /\ \A t \in Tasks : pc[t] \notin {"none", "done"} => url[t] = args[t]
    /\ mainPc \in {"recv", "print", "summary", "done"} => next = Len(args) + 1
    /\ (Running /\ mainPc = "spawn") => ENABLED MainGo

\* C3 witness: all MaxTargets transport calls are in flight at once, main
\* waiting for the first result.
C3_Witness ==
    /\ Len(args) = MaxTargets
    /\ mainPc = "recv"
    /\ collected = 0
    /\ \A t \in Tasks : pc[t] = "inflight"

\* A goroutine's next local step is enabled whatever the others do.
CanStep(t) ==
    /\ pc[t] = "start" => ENABLED FetchStart(t)
    /\ pc[t] = "get" => ENABLED HttpGetCall(t)
    /\ pc[t] = "inflight" => ENABLED HttpGetReturn(t)
    /\ pc[t] = "copy" => ENABLED IoCopy(t)
    /\ pc[t] = "close" => ENABLED BodyClose(t)
    /\ pc[t] = "since" => ENABLED TimeSince(t)
    /\ (pc[t] \in SendPcs /\ mainPc = "recv") => ENABLED ChanSendRecv(t)

\* C4 (failures are per task): no goroutine panics; a transport error makes
\* the goroutine send a failure; while the program runs every goroutine can
\* take its next step whatever happened to the others; and when main is
\* past its loops every goroutine, failed or not, has returned with its
\* result printed.
C4_FailuresNonFatal ==
    /\ ~panicked
    /\ \A t \in Tasks :
          (pc[t] \in SendPcs /\ transport[t].kind \in {"geterr", "readerr"})
              => IsFailure(msg[t])
    /\ Running => \A t \in Tasks : CanStep(t)
    /\ MainPastLoops =>
          \A t \in Tasks :
              /\ pc[t] = "done"
              /\ \E i \in 1..Len(args) :
                    sends[i].by = t /\ output[i] = Println(sends[i].s)

\* C4 witness: main is done, one goroutine failed at http.Get and another
\* one succeeded.
C4_Witness ==
    /\ mainPc = "done"
    /\ \E t, u \in Tasks :
          /\ transport[t].kind = "geterr"
          /\ transport[u].kind = "ok"
          /\ sends[1].by = t

\* The transport has so far always succeeded with b bytes / failed with e.
AlwaysOk(b) ==
    \A t \in Tasks :
        \/ transport[t].kind \in {"none", "response"}
        \/ transport[t] = Reply("ok", b, Nil)
AlwaysFail(e) ==
    \A t \in Tasks :
        \/ transport[t].kind \in {"none", "response"}
        \/ transport[t].kind \in {"geterr", "readerr"} /\ transport[t].e = e

\* C5: if every transport call succeeds with b bytes, every string sent and
\* every line printed is a success carrying b and the sender's own target.
C5_StubSuccess ==
    \A b \in Bytes :
        AlwaysOk(b) =>
            /\ collected <= Len(sends)
            /\ \A i \in 1..Len(sends) :
                  /\ IsSuccess(sends[i].s)
                  /\ sends[i].s[3].n = b
                  /\ sends[i].s[5] = Tok("url", args[sends[i].by], 0, 0)
                  /\ i <= collected => output[i] = Println(sends[i].s)

\* C5 witness: MaxTargets results are printed, all of 100 bytes.
C5_Witness ==
    /\ Len(args) = MaxTargets
    /\ \A t \in Tasks : transport[t] = Reply("ok", 100, Nil)
    /\ \E t \in Tasks : args[t] = "B"
    /\ collected = MaxTargets

\* C6: if every transport call fails with error e, every string sent and
\* every line printed is a failure carrying the text of e, and none is a
\* success.
C6_StubFailure ==
    \A e \in GetErrs \cup ReadErrs :
        AlwaysFail(e) =>
            /\ collected <= Len(sends)
            /\ \A i \in 1..Len(sends) :
                  /\ IsFailure(sends[i].s)
                  /\ Carries(sends[i].s, Tok("err", e, 0, 0))
                  /\ ~IsSuccess(sends[i].s)
                  /\ i <= collected => output[i] = Println(sends[i].s)

\* C6 witness: MaxTargets results are printed, every call having failed at
\* http.Get with the same error.
C6_Witness ==
    /\ Len(args) = MaxTargets
    /\ \A t \in Tasks : transport[t] = Reply("geterr", 0, "refused")
    /\ collected = MaxTargets

\* C7 as claimed: every failure sent carries the target, an elapsed time and
\* the error.  It fails: no failure carries an elapsed time, and the failure
\* of http.Get is the text of the error alone.
C7_FailureCarriesElapsed ==
    \A i \in 1..Len(sends) :
        IsFailure(sends[i].s) =>
            /\ Carries(sends[i].s, Tok("url", args[sends[i].by], 0, 0))
            /\ CarriesKind(sends[i].s, "secs")
            /\ Carries(sends[i].s, Tok("err", transport[sends[i].by].e, 0, 0))

\* C7 amended: every failure carries the text of the error and no elapsed
\* time, no elapsed time having been measured when it is sent; the failure of
\* reading the body also carries the target.
C7_FailureCarriesError ==
    /\ \A t \in Tasks :
          pc[t] \in {"send38", "send47"} =>
              /\ secs[t] = NoTime
              /\ IsFailure(msg[t])
    /\ \A i \in 1..Len(sends) :
          IsFailure(sends[i].s) =>
              /\ transport[sends[i].by].kind \in {"geterr", "readerr"}
              /\ Carries(sends[i].s, Tok("err", transport[sends[i].by].e, 0, 0))
              /\ ~CarriesKind(sends[i].s, "secs")
              /\ sends[i].secs = NoTime
              /\ transport[sends[i].by].kind = "readerr" =>
                    Carries(sends[i].s, Tok("url", args[sends[i].by], 0, 0))

\* C7 witness: a failure of http.Get and a failure of reading the body have
\* been sent.
C7_Witness ==
    \E i, j \in 1..Len(sends) :
        /\ transport[sends[i].by].kind = "geterr"
        /\ transport[sends[j].by].kind = "readerr"

\* C8 (completion order): the i-th line printed is the i-th string whose send
\* completed, whoever sent it; main prints a string before it receives the
\* next.
C8_CompletionOrder ==
    /\ collected <= Len(sends)
    /\ Len(sends) <= collected + 1
    /\ mainPc = "print" <=> Len(sends) = collected + 1
    /\ mainPc = "print" => recvd = sends[Len(sends)].s
    /\ \A i \in 1..collected : output[i] = Println(sends[i].s)

\* C8 witness: the results were printed in the reverse of the order of the
\* arguments: the last argument's first.
C8_Witness ==
    /\ mainPc = "done"
    /\ args = <<"A", "B">>
    /\ sends[1].by = 2
    /\ sends[2].by = 1
    /\ Carries(output[1], Tok("url", "B", 0, 0))
    /\ Carries(output[2], Tok("url", "A", 0, 0))

NumSummaries == Cardinality({i \in 1..Len(output) : IsSummary(output[i])})

\* C9 (summary): the summary line is printed at most once, exactly when main
\* is done; it follows the lines of all the results and is the last line; it
\* reports the time from main's start, read before any goroutine exists (so
\* before any goroutine's own start), to a reading of the clock made when all
\* results are collected.
C9_SummaryOnceLast ==
    /\ NumSummaries <= 1
    /\ mainPc = "done" <=> NumSummaries = 1
    /\ total # NoTime <=> mainPc = "done"
    /\ mainPc = "done" =>
          /\ collected = Len(args)
          /\ Len(output) = Len(args) + 1
          /\ \A i \in 1..Len(args) : output[i] = Println(sends[i].s)
          /\ output[Len(output)] = ElapsedLine(total)
          /\ total = clock - mainStart
    /\ mainStart = NoTime => \A t \in Tasks : pc[t] = "none"
    /\ \A t \in Tasks : start[t] # NoTime => mainStart <= start[t]

\* C9 witness: the summary line is printed after MaxTargets results, of a
\* run in which time has passed.
C9_Witness ==
    /\ mainPc = "done"
    /\ Len(args) = MaxTargets
    /\ IsSummary(output[MaxTargets + 1])
    /\ total > 0

\* C10 (total against the tasks): every elapsed time measured is at least 0;
\* a goroutine's secs is at most the time since main's start; and when main is
\* done the total is at least the secs of every goroutine that measured one,
\* as measured and as printed with two decimals.
C10_TotalBoundsTasks ==
    /\ total # NoTime => total >= 0
    /\ \A t \in Tasks :
          secs[t] # NoTime => 0 <= secs[t] /\ secs[t] <= clock - mainStart
    /\ mainPc = "done" =>
          /\ output[Len(output)][1].n >= 0
          /\ \A i \in 1..Len(sends) :
                /\ sends[i].secs <= total
                /\ IsSuccess(sends[i].s) =>
                      /\ sends[i].secs # NoTime
                      /\ sends[i].s[1].n = Centis(sends[i].secs)
                      /\ 0 <= sends[i].s[1].n
                      /\ sends[i].s[1].n <= output[Len(output)][1].n

\* C10 witness: two goroutines each measured the whole of MaxClock, and so
\* did main: the total is less than the sum.
C10_Witness ==
    /\ mainPc = "done"
    /\ Len(sends) = 2
    /\ sends[1].secs = MaxClock
    /\ sends[2].secs = MaxClock
    /\ total = MaxClock
    /\ total < sends[1].secs + sends[2].secs

\* C11 (empty list): with no argument main never enters either loop: no
\* goroutine is started, nothing is received, nothing is printed but the
\* summary line; and main is never stuck before it is done.
C11_EmptyList ==
    Len(args) = 0 =>
        /\ mainPc \in {"init", "summary", "done"}
        /\ next = 1
        /\ collected = 0
        /\ sends = <<>>
        /\ mainPc # "done" => output = <<>> /\ ENABLED Next
        /\ mainPc = "done" => output = <<ElapsedLine(total)>> /\ total >= 0

\* C11 witness: the run without arguments is done.
C11_Witness ==
    /\ Len(args) = 0
    /\ mainPc = "done"
    /\ Len(output) = 1
    /\ IsSummary(output[1])

\* C12 as claimed (hung call, cancellation): a transport call that hangs does
\* not keep main from returning: whenever a call hangs and nothing has
\* panicked, main is done or some step towards the N results is possible.
C12_ReturnsDespiteHang ==
    (~panicked /\ \E t \in Tasks : pc[t] = "hung") =>
        (mainPc = "done" \/ ENABLED Next)

\* C12 (amended: no cancellation): a goroutine whose http.Get hangs stays
\* hung and sends nothing, so main receives fewer than N results, never leaves
\* its receive loop and never prints the summary line.
C12_HangBlocksMain ==
    /\ [](\A t \in Tasks :
            pc[t] = "hung" =>
                /\ NumSent(t) = 0
                /\ collected < Len(args)
                /\ mainPc \notin {"summary", "done"}
                /\ total = NoTime
                /\ exitStatus # ExitSuccess
                /\ \A i \in 1..Len(output) : ~IsSummary(output[i]))
    /\ [][\A t \in Tasks : pc[t] = "hung" => pc'[t] = "hung"]_vars

\* C12 witness: one call hangs, every other result is collected and printed,
\* and main is blocked in its receive for ever.
C12_Witness ==
    /\ Len(args) = 2
    /\ \E t \in Tasks : pc[t] = "hung"
    /\ collected = Len(args) - 1
    /\ Len(output) = Len(args) - 1
    /\ mainPc = "recv"
    /\ ~panicked
    /\ ~ENABLED Next

\* C13 (no retry): every goroutine calls http.Get exactly once: not before
\* it reaches the call, once from then on, whether the call succeeds, fails
\* or hangs, and never a second time.
C13_GetOnce ==
    \A t \in Tasks :
        /\ getCalls[t] <= 1
        /\ pc[t] \in {"none", "start", "get"} => getCalls[t] = 0
        /\ pc[t] \notin {"none", "start", "get"} => getCalls[t] = 1
        /\ NumSent(t) = 1 => getCalls[t] = 1

\* C13 witness: a finished run of two targets, one fetched and one failed,
\* each with one call of http.Get.
C13_Witness ==
    /\ mainPc = "done"
    /\ Len(args) = 2
    /\ \E t, u \in Tasks :
         /\ transport[t].kind = "geterr"
         /\ transport[u].kind = "ok"
         /\ getCalls[t] = 1
         /\ getCalls[u] = 1

\* C19 (exit status): the process ends only by main returning after the
\* summary line, and then with status 0, whatever the results were: no run
\* ends with another status, and none ends before the summary line.
C19_ExitSuccess ==
    /\ exitStatus \in {NoExit, ExitSuccess}
    /\ exitStatus # NoExit <=> mainPc = "done"
    /\ mainPc = "done" =>
          /\ exitStatus = ExitSuccess
          /\ Len(output) = Len(args) + 1
          /\ IsSummary(output[Len(output)])

\* C19 witness: a run in which every target failed has ended with status 0.
C19_Witness ==
    /\ Len(args) = 2
    /\ mainPc = "done"
    /\ exitStatus = ExitSuccess
    /\ \A i \in 1..Len(args) : IsFailure(output[i])

\* C18 as claimed (malformed target): a malformed target becomes one Failure
\* result and http.Get is never called for it.
C18_NoTransportCall ==
    \A t \in Tasks :
        Malformed(args[t]) =>
            /\ getCalls[t] = 0
            /\ mainPc = "done" => NumSent(t) = 1 /\ IsFailure(SentBy(t)[1].s)

\* C18 (amended: checked by http.Get): fetch passes a malformed target to
\* http.Get like any other, once; the call returns an error, no body is read,
\* and the goroutine sends one Failure carrying that error, which main
\* receives as one of its N results.
C18_MalformedIsFailure ==
    \A t \in Tasks :
        Malformed(args[t]) =>
            /\ pc[t] \notin {"none", "start", "get"} => getCalls[t] = 1
            /\ pc[t] \notin {"hung", "copy", "close", "since", "send47", "send52"}
            /\ transport[t].kind \in {"none", "geterr"}
            /\ NumSent(t) <= 1
            /\ NumSent(t) = 1 =>
                  /\ IsFailure(SentBy(t)[1].s)
                  /\ Carries(SentBy(t)[1].s, Tok("err", BadTargetErr, 0, 0))
                  /\ ~IsSuccess(SentBy(t)[1].s)
            /\ mainPc = "done" =>
                  /\ NumSent(t) = 1
                  /\ collected = Len(args)
                  /\ \E i \in 1..Len(args) : output[i] = Println(SentBy(t)[1].s)

\* C18 witness: a finished run of two targets, the first malformed: http.Get
\* was called for it and its Failure is among the two results.
C18_Witness ==
    /\ Len(args) = 2
    /\ Malformed(args[1])
    /\ mainPc = "done"
    /\ getCalls[1] = 1
    /\ NumSent(1) = 1
    /\ IsFailure(SentBy(1)[1].s)
    /\ collected = 2

\* The state owned by goroutine t: its position and its local variables.
Locals(t) ==
    <<pc[t], url[t], start[t], resp[t], err[t], nbytes[t], secs[t], msg[t]>>

\* C14 (single writer, single reader): each goroutine sends on ch at most
\* once and exactly once by the time it has returned; a send happens only as
\* a rendezvous with main's receive, which takes the very string sent, so the
\* strings main has printed are the strings sent, each once and in order; and
\* no step changes the local state of two goroutines, so a fetch never
\* writes another fetch's variables.
C14_SingleWriterReader ==
    /\ [](/\ \A t \in Tasks :
               /\ NumSent(t) <= 1
               /\ pc[t] = "done" => NumSent(t) = 1
          /\ collected <= Len(sends)
          /\ Len(sends) <= collected + 1
          /\ Len(sends) = collected + 1 <=>
                 mainPc = "print"
          /\ mainPc = "print" => recvd = sends[Len(sends)].s
          /\ \A i \in 1..collected : output[i] = Println(sends[i].s))
    /\ [][sends' # sends =>
            \E t \in Tasks :
                /\ pc[t] \in SendPcs
                /\ mainPc = "recv"
                /\ mainPc' = "print"
                /\ recvd' = msg[t]
                /\ sends' = Append(sends, [by |-> t, s |-> msg[t],
                                           secs |-> secs[t]])
                /\ pc'[t] = "done"]_vars
    /\ [][recvd' # recvd => sends' # sends]_vars
    /\ [][\A t, u \in Tasks :
            (t # u /\ Locals(t)' # Locals(t)) => Locals(u)' = Locals(u)]_vars

\* C14 witness: two goroutines have each sent once, and main has received
\* and printed both strings.
C14_Witness ==
    /\ Len(args) = 2
    /\ Len(sends) = 2
    /\ sends[1].by # sends[2].by
    /\ collected = 2
    /\ output[1] = Println(sends[1].s)
    /\ output[2] = Println(sends[2].s)

\* A printed line with its measured time blanked.
StripTime(line) ==
    [i \in 1..Len(line) |->
        IF line[i].k = "secs" THEN [line[i] EXCEPT !.n = 0] ELSE line[i]]

\* The line, time blanked, that the t-th target must yield given what the
\* transport did for it: written out piece by piece.
Expected(t) ==
    LET r == transport[t]
        u == [k |-> "url", s |-> args[t], n |-> 0, w |-> 0]
        e == [k |-> "err", s |-> r.e, n |-> 0, w |-> 0]
        blanks == IF r.n < 10 THEN 6 ELSE IF r.n < 100 THEN 5 ELSE 4
    IN  CASE r.kind = "ok" ->
               <<[k |-> "secs", s |-> "", n |-> 0, w |-> 0], Lit("s "),
                 [k |-> "int", s |-> "", n |-> r.n, w |-> blanks], Lit(" "),
                 u, Lit("\n")>>
          [] r.kind = "geterr" -> <<e, Lit("\n")>>
          [] r.kind = "readerr" ->
               <<Lit("while reading "), Verb("%s"), Lit(": "), Verb("%v"),
                 u, e, Lit("\n")>>
          [] OTHER -> <<>>

\* C15 (the results are a function of targets and transport): each line
\* printed is, but for its time, the line determined by the sender's target
\* and by what the transport did for that target; and when main is done the
\* lines printed before the summary are, as a multiset, those determined by
\* the N targets, whatever the order in which the goroutines ran.
C15_ResultMultiset ==
    /\ \A i \in 1..collected :
          StripTime(output[i]) = Expected(sends[i].by)
    /\ mainPc = "done" =>
          \A t \in Tasks :
              Cardinality({i \in 1..Len(args) :
                              StripTime(output[i]) = Expected(t)})
                  = Cardinality({u \in Tasks : Expected(u) = Expected(t)})

\* C15 witness: a finished run of two different results in which the second
\* target's result was reported first.
C15_Witness ==
    /\ Len(args) = 2
    /\ mainPc = "done"
    /\ transport[1].kind = "ok"
    /\ transport[2].kind = "geterr"
    /\ StripTime(output[1]) = Expected(2)
    /\ StripTime(output[2]) = Expected(1)

\* The goroutine of request r is between mu.Lock() and the return of
\* mu.Unlock(): the stretch of counter in which count is read.
InCritical(r) == hpc[r] \in {"read", "write", "unlock"}

\* C16 (mutex discipline): a goroutine is in the stretch that reads count
\* only while it holds mu; count is read only by the holder of mu, which
\* locked it before; and a goroutine that has not locked mu, or has returned
\* from its handler (whether or not its write failed), does not hold mu.
C16_MutexDiscipline ==
    /\ [](\A r \in Requests :
            /\ InCritical(r) => mu /\ holder = r
            /\ ~InCritical(r) => holder # r
            /\ loaded[r] # -1 => Route(path[r]) = "counter")
    /\ [](mu <=> holder # 0)
    /\ [][\A r \in Requests :
            loaded'[r] # loaded[r] =>
                /\ mu /\ holder = r
                /\ mu' /\ holder' = r
                /\ loaded'[r] = count]_vars
    /\ [][\A r \in Requests :
            (hpc[r] # "done" /\ hpc'[r] = "done") => ~mu' \/ holder' # r]_vars

\* C16 witness: a /count request whose write failed has returned and mu is
\* unlocked; another /count request has been answered.
C16_Witness ==
    /\ ~mu
    /\ \E r, q \in Requests :
         /\ path[r] = "/count" /\ hpc[r] = "done" /\ body[r] = <<>>
         /\ path[q] = "/count" /\ hpc[q] = "done"
         /\ body[q] = <<(<<"Count", 0>>)>>

\* C17 (one accessor of count): at most one goroutine is in the stretch of
\* counter that reads count; the goroutines of the other paths never reach
\* it and never read count; and count is never written.
C17_OneAccessor ==
    /\ Cardinality({r \in Requests : InCritical(r)}) <= 1
    /\ \A r \in Requests :
          (hpc[r] # "idle" /\ Route(path[r]) = "handler") =>
              ~InCritical(r) /\ hpc[r] # "lock" /\ loaded[r] = -1
    /\ count = 0

\* C17 witness: three requests are served at once: one goroutine is about to
\* read count, a second waits in mu.Lock(), a third runs handler.
C17_Witness ==
    \E r, q, h \in Requests :
        /\ hpc[r] = "read"
        /\ hpc[q] = "lock"
        /\ hpc[h] = "parse"
        /\ ~ENABLED CounterLock(q)

\* The number of lines of the input whose text is x, and the places of the
\* output at which x is printed.
Occurrences(x) == Cardinality({i \in 1..Len(stdin) : stdin[i].text = x})
PrintedAt(x) == {j \in 1..Len(stdout) : stdout[j][2] = x}

\* C20 as claimed (Dup v1): when Dup is done, a text is printed if and only
\* if it is the text of more than one line of the input; it is printed once,
\* and the count before it is the number of lines with that text.
C20_DupPrintsDuplicates ==
    dupPc = "done" =>
        \A x \in Texts :
            /\ Occurrences(x) > 1 <=> PrintedAt(x) # {}
            /\ Cardinality(PrintedAt(x)) <= 1
            /\ \A j \in PrintedAt(x) : stdout[j][1] = Occurrences(x)

\* The number of receives main has completed: the strings printed, and the
\* one received and not yet printed.
NumReceived == collected + (IF mainPc = "print" THEN 1 ELSE 0)

\* C23 (no goroutine left blocked): at every moment as many sends have
\* completed as receives; and once main is past its receive loop, N sends
\* have completed, every goroutine has returned and none waits in a send.
C23_NoTaskLeftBlocked ==
    /\ Len(sends) = NumReceived
    /\ Len(sends) <= Len(args)
    /\ MainPastLoops =>
          /\ Len(sends) = Len(args)
          /\ \A t \in Tasks : pc[t] \notin SendPcs
          /\ \A t \in Tasks : pc[t] = "done"
          /\ \A t \in Tasks : \E i \in 1..Len(sends) : sends[i].by = t

\* C23 witness: main has printed the summary line after two goroutines, one
\* of which failed, completed their sends.
C23_Witness ==
    /\ mainPc = "done"
    /\ Len(args) = 2
    /\ Len(sends) = 2
    /\ NumReceived = 2
    /\ \E t \in Tasks : transport[t].kind = "readerr"
    /\ IsSummary(output[3])

\* The message promised for a body-read failure on target u with error e:
\* "while reading <u>: <e>".
ReadErrMessage(u, e) ==
    <<Lit("while reading "), Tok("url", u, 0, 0), Lit(": "),
      Tok("err", e, 0, 0)>>

\* C24 as claimed (body-read failure message): the string sent after a
\* failed body read is "while reading <url>: <error>", with no format verb
\* left in it.
C24_ReadErrFormatted ==
    \A i \in 1..Len(sends) :
        transport[sends[i].by].kind = "readerr" =>
            /\ sends[i].s = ReadErrMessage(args[sends[i].by],
                                           transport[sends[i].by].e)
            /\ ~CarriesKind(sends[i].s, "verb")

SomeHung == \E t \in Tasks : pc[t] = "hung"

\* main is in its receive, every goroutine has returned or hung, and one has
\* hung: nothing is left that could send.
BlockedForEver ==
    /\ mainPc = "recv"
    /\ SomeHung
    /\ \A t \in Tasks : pc[t] \in {"done", "hung"}

\* C22 (termination): under a fair scheduler every run ends in one of two
\* ways: main prints the summary line and is done, or, a transport call
\* having hung, main is blocked in its receive for ever.  So a run without a
\* hung call terminates (it cannot stop in a deadlock before), and once a
\* call has hung main never gets past its receive loop.
C22_Termination ==
    /\ <>(mainPc = "done" \/ BlockedForEver)
    /\ [](SomeHung => ~MainPastLoops)
    /\ [](mainPc = "done" => ~SomeHung /\ collected = Len(args))
    /\ [][SomeHung => SomeHung']_vars

\* C22 witness: every transport call of a run of MaxTargets targets has
\* returned, one of them with an error, and main is done.
C22_Witness ==
    /\ Len(args) = MaxTargets
    /\ mainPc = "done"
    /\ ~SomeHung
    /\ \A t \in Tasks : getCalls[t] = 1 /\ transport[t].kind # "none"
    /\ \E t \in Tasks : transport[t].kind = "geterr"

\* C27 (count is never modified): count is 0 in every state and no step
\* changes it; the value read for a /count request is 0, and the response
\* of a /count request is the line "Count 0" or, if the write failed, empty.
C27_CountStaysZero ==
    /\ [](count = 0)
    /\ [][count' = count]_vars
    /\ [](\A r \in Requests :
            /\ loaded[r] \in {-1, 0}
            /\ hpc[r] \in {"write", "unlock"} => loaded[r] = 0
            /\ (hpc[r] = "done" /\ Route(path[r]) = "counter") =>
                   body[r] \in {<<>>, <<(<<"Count", 0>>)>>})

\* C27 witness: after a request to "/" and a request to "/count" have been
\* served, a further /count request is answered "Count 0".
C27_Witness ==
    /\ hpc[1] = "done" /\ path[1] = "/"
    /\ hpc[2] = "done" /\ path[2] = "/count"
    /\ hpc[3] = "done" /\ path[3] = "/count"
    /\ body[3] = <<(<<"Count", 0>>)>>

\* C28 (liveness of /count): every request that has started is served to
\* the end; a /count request that waits for mu gets it, and when it is done
\* it has released mu; a request to "/" never waits for mu nor holds it, and
\* its next step is possible whatever the /count requests are doing.
C28_CounterLive ==
    /\ \A r \in Requests : (hpc[r] = "lock") ~> (hpc[r] = "read")
    /\ \A r \in Requests : (hpc[r] # "idle") ~> (hpc[r] = "done")
    /\ [](\A r \in Requests :
            /\ hpc[r] = "done" => holder # r
            /\ (hpc[r] # "idle" /\ Route(path[r]) = "handler") =>
                  /\ hpc[r] \in {"echo", "parse", "form", "done"}
                  /\ hpc[r] # "done" => ENABLED ServeStep(r))

\* C28 witness: a /count request waits in mu.Lock() while another holds mu,
\* and a request to "/" is under way.
C28_Witness ==
    \E r, q, h \in Requests :
        /\ hpc[r] = "lock" /\ r < q
        /\ hpc[q] = "unlock" /\ holder = q
        /\ hpc[h] = "form"

\* C21 (sequential Fetch, all succeed): http.Get is called for the arguments
\* in order, the call for argument k only after the bodies of the k-1
\* arguments before it were printed, so that one call at most is under way;
\* the j-th write to standard output is the body found at the j-th
\* argument; and when main returns every argument's body has been printed
\* once, nothing was written to standard error and the status is 0.
C21_BodiesInOrder ==
    /\ \A k \in 1..Len(seqGets) : seqGets[k] = k
    /\ Len(seqGets) <= Len(seqOut) + 1
    /\ Len(seqOut) <= Len(seqGets)
    /\ seqPc = "inflight" => Len(seqGets) = Len(seqOut) + 1
    /\ \A j \in 1..Len(seqOut) :
          /\ j <= Len(urls)
          /\ Len(seqOut[j]) = 1
          /\ seqOut[j][1].k = "body"
          /\ seqOut[j][1].s = urls[j]
    /\ seqPc = "done" =>
          /\ Len(seqOut) = Len(urls)
          /\ Len(seqGets) = Len(urls)
          /\ seqErrOut = <<>>
          /\ seqStatus = ExitSuccess

\* C21 witness: the bodies of MaxUrls arguments have been printed and main
\* has returned.
C21_Witness ==
    /\ Len(urls) = MaxUrls
    /\ seqPc = "done"
    /\ Len(seqOut) = MaxUrls
    /\ seqOut[1][1].s = "A"
    /\ seqOut[2][1].s = "B"

\* C25 (sequential Fetch, error path): an error message is written only for
\* the argument at which http.Get or the body read failed, once, and is
\* followed by exit status 1; by then the bodies of exactly the arguments
\* before it have been printed, none for the failing one, no later argument
\* has been fetched, and nothing happens after the exit.
C25_FirstErrorExits ==
    /\ [](/\ Len(seqErrOut) <= 1
          /\ seqErrOut # <<>> <=> seqPc \in {"exit", "exited"}
          /\ seqStatus = ExitFailure <=> seqPc = "exited"
          /\ seqPc \in {"exit", "exited"} =>
                /\ seqIdx <= Len(urls)
                /\ seqErr # Nil
                /\ CarriesKind(seqErrOut[1], "err")
                /\ ~CarriesKind(seqErrOut[1], "body")
                /\ Len(seqOut) = seqIdx - 1
                /\ \A j \in 1..Len(seqOut) : seqOut[j][1].s = urls[j]
                /\ Len(seqGets) = seqIdx
                /\ seqGets[Len(seqGets)] = seqIdx
          /\ seqPc = "done" => seqStatus = ExitSuccess /\ seqErrOut = <<>>)
    /\ [][seqPc = "exited" => seqVars' = seqVars]_vars
    /\ [][seqErrOut' # seqErrOut => seqOut' = seqOut /\ seqPc' = "exit"]_vars

\* C25 witness: the body read of the second of three arguments failed after
\* some bytes were read: the first body is printed, the program has exited
\* with status 1 and the third argument was never fetched.
C25_Witness ==
    /\ Len(urls) = 3
    /\ seqPc = "exited"
    /\ seqStatus = ExitFailure
    /\ seqIdx = 2
    /\ seqResp # Nil
    /\ seqB.toks[1].n > 0
    /\ Len(seqOut) = 1
    /\ seqGets = <<1, 2>>

\* The response of goroutine t has a body to release: http.Get has returned
\* without error.
GotResponse(t) == transport[t].kind \in {"response", "ok", "readerr"}

\* C26 (bodies are released), fetchall: a goroutine closes the body at most
\* once, never before http.Get has returned a response and never when it
\* returned an error; it has closed it once when it goes on after the body
\* read, failed or not, and so before its send and before main returns.
\* Sequential Fetch: the bodies closed are those of the arguments whose
\* http.Get returned a response, each once, in order, closed before the
\* body is printed, before the message of a read error is written and
\* before the exit; none is closed after a failed http.Get.
C26_BodiesClosed ==
    /\ \A t \in Tasks :
          /\ closeCalls[t] <= 1
          /\ closeCalls[t] = 1 => GotResponse(t)
          /\ pc[t] \in {"none", "start", "get", "inflight", "hung", "send38",
                        "copy", "close"} => closeCalls[t] = 0
          /\ pc[t] \in {"since", "send47", "send52"} => closeCalls[t] = 1
          /\ pc[t] = "done" =>
                (closeCalls[t] = 1 <=> transport[t].kind \in {"ok", "readerr"})
    /\ mainPc = "done" =>
          \A t \in Tasks : closeCalls[t] = 1 <=> transport[t].kind # "geterr"
    /\ \A k \in 1..Len(seqCloses) :
          /\ seqCloses[k] \in 1..Len(seqGets)
          /\ \A j \in 1..Len(seqCloses) : seqCloses[j] = seqCloses[k] => j = k
    /\ Len(seqOut) <= Len(seqCloses)
    /\ Len(seqCloses) <= Len(seqOut) + 1
    /\ \A j \in 1..Len(seqOut) : seqCloses[j] = j
    /\ seqPc \in {"inflight", "geterr", "read", "close"} =>
          Len(seqCloses) = Len(seqOut)
    /\ seqPc = "check" =>
          Len(seqCloses) = Len(seqOut) + 1 /\ seqCloses[Len(seqCloses)] = seqIdx
    /\ seqPc \in {"exit", "exited"} =>
          IF seqResp = Nil
          THEN Len(seqCloses) = Len(seqOut)
          ELSE Len(seqCloses) = Len(seqOut) + 1
               /\ seqCloses[Len(seqCloses)] = seqIdx
    /\ seqPc = "done" => Len(seqCloses) = Len(urls)

\* C26 witness, fetchall: main is done; one goroutine closed the body after
\* a failed read, one after a full read.
C26_Witness ==
    /\ mainPc = "done"
    /\ Len(args) = 2
    /\ \E t, u \in Tasks :
         /\ transport[t].kind = "readerr" /\ closeCalls[t] = 1
         /\ transport[u].kind = "ok" /\ closeCalls[u] = 1

====
